---- MODULE Spec2Model ----
(***************************************************************************)
(* CdkappStack (cdkapp_stack.py): evaluation of the stack constructor,     *)
(* statement by statement, into a construct tree with security-group       *)
(* rules, resource properties and ordering edges, followed by a            *)
(* reconciliation engine that provisions the synthesized resources in an   *)
(* order that respects the edges.                                          *)
(***************************************************************************)
EXTENDS Integers, Sequences, FiniteSets, TLC

\* Number of availability-zone names the region may offer.
NumZones == 3
\* Longest zone list the VPC may expose (vpc.availability_zones).
MaxAzs == 3
\* Number of different contents the boot-payload file may have.
NumPayloads == 2

Zones == 1..NumZones
Payloads == 1..NumPayloads
NoFile == 0
Unset == "unset"
AnyIpv4 == "0.0.0.0/0"
StackScope == "CdkappStack"

\* Zone lists as the SDK hands them out: non-empty, without repetition.
ZoneLists ==
    { s \in UNION { [1..n -> Zones] : n \in 1..MaxAzs } :
        \A i, j \in DOMAIN s : i # j => s[i] # s[j] }

VARIABLES
    pc,            \* the statement of __init__ to evaluate next
    azs,           \* vpc.availability_zones (1-based here, 0-based in Python)
    file,          \* cdkapp/userdata.sh: NoFile or its content
    user_data,     \* the local user_data
    amzn_linux,    \* the local amzn_linux
    tree,          \* constructs added to the stack: [id, type, scope]
    ingress,       \* security-group ingress rules: [sg, peer, port]
    clusters,      \* properties of the database clusters
    instances,     \* properties of the compute instances
    balancers,     \* properties of the load balancers
    listeners,     \* properties of the listeners
    targetGroups,  \* properties of the target groups
    deps,          \* node.add_dependency edges: <<dependent, dependency>>
    refs,          \* edges implied by attribute references
    synthesized,   \* the graph has been handed to the engine
    dependsOn,     \* the synthesized template's edges between resources
    status         \* the engine's view of each resource

vars == << pc, azs, file, user_data, amzn_linux, tree, ingress, clusters,
           instances, balancers, listeners, targetGroups, deps, refs,
           synthesized, dependsOn, status >>

graphVars == << tree, ingress, clusters, instances, balancers, listeners,
                targetGroups, deps, refs >>

Ids == { c.id : c \in tree }

Init ==
    /\ pc = "vpc"
    /\ azs \in ZoneLists
    /\ file \in {NoFile} \cup Payloads
    /\ user_data = Unset
    /\ amzn_linux = Unset
    /\ tree = {}
    /\ ingress = {}
    /\ clusters = {}
    /\ instances = {}
    /\ balancers = {}
    /\ listeners = {}
    /\ targetGroups = {}
    /\ deps = {}
    /\ refs = {}
    /\ synthesized = FALSE
    /\ dependsOn = {}
    /\ status = << >>

----------------------------------------------------------------------------
\* SDK calls used by the constructor.

Construct(id, type, scope) == [id |-> id, type |-> type, scope |-> scope]

Rule(sg, peer, port) == [sg |-> sg, peer |-> peer, port |-> port]

\* Go on with the next statement, leaving the locals alone.
Goto(next) ==
    /\ pc' = next
    /\ UNCHANGED << azs, file, synthesized, dependsOn, status >>

\* ec2.SecurityGroup(self, id, vpc=vpc, allow_all_outbound=True)
SecurityGroup(id, next) ==
    /\ tree' = tree \cup {Construct(id, "SecurityGroup", StackScope)}
    /\ refs' = refs \cup {<<id, "MyVPC">>}
    /\ Goto(next)
    /\ UNCHANGED << user_data, amzn_linux, ingress, clusters, instances,
                    balancers, listeners, targetGroups, deps >>

\* sg.add_ingress_rule(peer=peer, connection=ec2.Port.tcp(port))
AddIngressRule(sg, peer, port, next) ==
    /\ ingress' = ingress \cup {Rule(sg, peer, port)}
    /\ Goto(next)
    /\ UNCHANGED << user_data, amzn_linux, tree, clusters, instances,
                    balancers, listeners, targetGroups, deps, refs >>

\* dependent.node.add_dependency(dependency)
AddDependency(dependent, dependency, next) ==
    /\ deps' = deps \cup {<<dependent, dependency>>}
    /\ Goto(next)
    /\ UNCHANGED << user_data, amzn_linux, tree, ingress, clusters, instances,
                    balancers, listeners, targetGroups, refs >>

\* ec2.Instance(self, id, ..., availability_zone=vpc.availability_zones[i], ...)
\* with i 0-based: an index past the end of the list raises IndexError.
Instance(id, i, roleId, next) ==
    IF i + 1 \in DOMAIN azs
    THEN /\ tree' = tree \cup {Construct(id, "Instance", StackScope),
                               Construct(roleId, "ImportedRole", StackScope)}
         /\ instances' = instances \cup
              {[id |-> id,
                instance_type |-> "t2.small",
                machine_image |-> amzn_linux,
                subnet_type |-> "PRIVATE_WITH_EGRESS",
                availability_zone |-> azs[i + 1],
                security_group |-> "ec2_sg",
                user_data |-> user_data,
                role_name |-> "ec2_instance_role"]}
         /\ refs' = refs \cup {<<id, "MyVPC">>, <<id, "ec2_sg">>}
         /\ Goto(next)
         /\ UNCHANGED << user_data, amzn_linux, ingress, clusters, balancers,
                         listeners, targetGroups, deps >>
    ELSE /\ Goto("failed")
         /\ UNCHANGED << user_data, amzn_linux >>
         /\ UNCHANGED graphVars

----------------------------------------------------------------------------
\* The statements of CdkappStack.__init__, in order.

CreateVpc ==
    /\ pc = "vpc"
    /\ tree' = tree \cup {Construct("MyVPC", "Vpc", StackScope)}
    /\ Goto("lb_sg")
    /\ UNCHANGED << user_data, amzn_linux, ingress, clusters, instances,
                    balancers, listeners, targetGroups, deps, refs >>

CreateLbSg == pc = "lb_sg" /\ SecurityGroup("lb_sg", "rds_sg")

CreateRdsSg == pc = "rds_sg" /\ SecurityGroup("rds_sg", "ec2_sg")

CreateEc2Sg == pc = "ec2_sg" /\ SecurityGroup("ec2_sg", "lb_ingress")

LbSgIngress ==
    pc = "lb_ingress" /\ AddIngressRule("lb_sg", AnyIpv4, 80, "ec2_ingress")

Ec2SgIngress_FromAnywhere ==
    pc = "ec2_ingress" /\ AddIngressRule("ec2_sg", AnyIpv4, 8443, "rds_ingress_3306")

Ec2SgIngress ==
    pc = "ec2_ingress" /\ AddIngressRule("ec2_sg", "lb_sg", 8443, "rds_ingress_3306")

RdsSgIngress3306 ==
    pc = "rds_ingress_3306" /\ AddIngressRule("rds_sg", "ec2_sg", 3306, "rds_ingress_22")

RdsSgIngress22_FromAnywhere ==
    pc = "rds_ingress_22" /\ AddIngressRule("rds_sg", AnyIpv4, 22, "cluster")

RdsSgIngress22 ==
    pc = "rds_ingress_22" /\ AddIngressRule("rds_sg", "ec2_sg", 22, "cluster")

CreateCluster ==
    /\ pc = "cluster"
    /\ tree' = tree \cup {Construct("MyDatabase", "DatabaseCluster", StackScope)}
    /\ clusters' = clusters \cup
         {[id |-> "MyDatabase",
           engine |-> "aurora-mysql-3.04.0",
           username |-> "testuser",
           default_database_name |-> "Population",
           security_groups |-> {"rds_sg"},
           subnet_type |-> "PRIVATE_ISOLATED",
           instances |-> 1]}
    /\ refs' = refs \cup {<<"MyDatabase", "MyVPC">>, <<"MyDatabase", "rds_sg">>}
    /\ Goto("amzn_linux")
    /\ UNCHANGED << user_data, amzn_linux, ingress, instances, balancers,
                    listeners, targetGroups, deps >>

LatestAmazonLinux ==
    /\ pc = "amzn_linux"
    /\ amzn_linux' = "AMAZON_LINUX_2/STANDARD/HVM/GENERAL_PURPOSE"
    /\ Goto("read_userdata")
    /\ UNCHANGED user_data
    /\ UNCHANGED graphVars

\* A variant that swallows the failed open and goes on with an empty payload.
ReadUserData_Swallowed ==
    /\ pc = "read_userdata"
    /\ user_data' = file
    /\ Goto("instance")
    /\ UNCHANGED amzn_linux
    /\ UNCHANGED graphVars

\* with open("cdkapp/userdata.sh", "r") as f: user_data = f.read()
ReadUserData ==
    /\ pc = "read_userdata"
    /\ IF file = NoFile
       THEN Goto("failed") /\ UNCHANGED user_data
       ELSE Goto("instance") /\ user_data' = file
    /\ UNCHANGED amzn_linux
    /\ UNCHANGED graphVars

CreateInstance ==
    pc = "instance" /\ Instance("MyInstance", 0, "ec2_instance_role", "instance2")

CreateInstance2_SameZone ==
    pc = "instance2" /\ Instance("MyInstance2", 0, "ec2_instance_role2", "lb")

CreateInstance2 ==
    pc = "instance2" /\ Instance("MyInstance2", 1, "ec2_instance_role2", "lb")

CreateLoadBalancer ==
    /\ pc = "lb"
    /\ tree' = tree \cup {Construct("MyLoadBalancer", "ApplicationLoadBalancer", StackScope)}
    /\ balancers' = balancers \cup
         {[id |-> "MyLoadBalancer", internet_facing |-> TRUE,
           security_group |-> "lb_sg"]}
    /\ refs' = refs \cup {<<"MyLoadBalancer", "MyVPC">>, <<"MyLoadBalancer", "lb_sg">>}
    /\ Goto("listener")
    /\ UNCHANGED << user_data, amzn_linux, ingress, clusters, instances,
                    listeners, targetGroups, deps >>

\* lb.add_listener("Listener", port=80, open=True): an open listener lets
\* anyone reach its port through the balancer's security group.
AddListener ==
    /\ pc = "listener"
    /\ tree' = tree \cup {Construct("Listener", "ApplicationListener", "MyLoadBalancer")}
    /\ listeners' = listeners \cup
         {[id |-> "Listener", lb |-> "MyLoadBalancer", port |-> 80, open |-> TRUE]}
    /\ ingress' = ingress \cup
         { Rule(b.security_group, AnyIpv4, 80) :
             b \in { x \in balancers : x.id = "MyLoadBalancer" } }
    /\ refs' = refs \cup {<<"Listener", "MyLoadBalancer">>}
    /\ Goto("targets")
    /\ UNCHANGED << user_data, amzn_linux, clusters, instances, balancers,
                    targetGroups, deps >>

\* listener.add_targets("Targets", port=80): no targets= argument is given,
\* so the group is created with an empty pool; the listener forwards to it.
AddTargets ==
    /\ pc = "targets"
    /\ tree' = tree \cup {Construct("TargetsGroup", "ApplicationTargetGroup", "Listener")}
    /\ targetGroups' = targetGroups \cup
         {[id |-> "TargetsGroup", listener |-> "Listener", port |-> 80,
           targets |-> {}]}
    /\ refs' = refs \cup {<<"TargetsGroup", "MyVPC">>, <<"Listener", "TargetsGroup">>}
    /\ Goto("dep_instance_cluster")
    /\ UNCHANGED << user_data, amzn_linux, ingress, clusters, instances,
                    balancers, listeners, deps >>

DependInstanceOnCluster ==
    /\ pc = "dep_instance_cluster"
    /\ AddDependency("MyInstance", "MyDatabase", "dep_listener_instance")

DependListenerOnInstance ==
    /\ pc = "dep_listener_instance"
    /\ AddDependency("Listener", "MyInstance", "dep_listener_instance2")

DependListenerOnInstance2_Omitted ==
    /\ pc = "dep_listener_instance2"
    /\ Goto("done")
    /\ UNCHANGED << user_data, amzn_linux >>
    /\ UNCHANGED graphVars

DependListenerOnInstance2_InstanceOnListener ==
    /\ pc = "dep_listener_instance2"
    /\ AddDependency("MyInstance", "Listener", "done")

DependListenerOnInstance2 ==
    /\ pc = "dep_listener_instance2"
    /\ AddDependency("Listener", "MyInstance2", "done")

Evaluate ==
    \/ CreateVpc
    \/ CreateLbSg
    \/ CreateRdsSg
    \/ CreateEc2Sg
    \/ LbSgIngress
    \/ Ec2SgIngress
    \/ RdsSgIngress3306
    \/ RdsSgIngress22
    \/ CreateCluster
    \/ LatestAmazonLinux
    \/ ReadUserData
    \/ CreateInstance
    \/ CreateInstance2
    \/ CreateLoadBalancer
    \/ AddListener
    \/ AddTargets
    \/ DependInstanceOnCluster
    \/ DependListenerOnInstance
    \/ DependListenerOnInstance2

----------------------------------------------------------------------------
\* The reconciliation engine that consumes the synthesized graph.

ResourceTypes ==
    {"Vpc", "SecurityGroup", "DatabaseCluster", "Instance",
     "ApplicationLoadBalancer", "ApplicationListener", "ApplicationTargetGroup"}

Resources == { c.id : c \in { x \in tree : x.type \in ResourceTypes } }

ScopeOf(id) == (CHOOSE c \in tree : c.id = id).scope

RECURSIVE Within(_, _)
\* id is the construct root or lies in its subtree.
Within(id, root) ==
    \/ id = root
    \/ /\ id \in Ids
       /\ ScopeOf(id) # StackScope
       /\ Within(ScopeOf(id), root)

\* A dependency between constructs orders every resource under the dependent
\* after every resource under the dependency.
OrderingEdges ==
    { e \in Resources \X Resources :
        \/ e \in refs
        \/ \E d \in deps : Within(e[1], d[1]) /\ Within(e[2], d[2]) }

DependenciesOf(r) == { e[2] : e \in { x \in dependsOn : x[1] = r } }

Synth ==
    /\ pc = "done"
    /\ ~synthesized
    /\ synthesized' = TRUE
    /\ dependsOn' = OrderingEdges
    /\ status' = [r \in Resources |-> "pending"]
    /\ UNCHANGED << pc, azs, file, user_data, amzn_linux >>
    /\ UNCHANGED graphVars

StartProvisioning(r) ==
    /\ synthesized
    /\ status[r] = "pending"
    /\ \A d \in DependenciesOf(r) : status[d] = "ready"
    /\ status' = [status EXCEPT ![r] = "creating"]
    /\ UNCHANGED << pc, azs, file, user_data, amzn_linux, synthesized, dependsOn >>
    /\ UNCHANGED graphVars

BecomeReady(r) ==
    /\ synthesized
    /\ status[r] = "creating"
    /\ status' = [status EXCEPT ![r] = "ready"]
    /\ UNCHANGED << pc, azs, file, user_data, amzn_linux, synthesized, dependsOn >>
    /\ UNCHANGED graphVars

Engine ==
    \E r \in DOMAIN status : StartProvisioning(r) \/ BecomeReady(r)

Next == Evaluate \/ Synth \/ Engine

Spec == Init /\ [][Next]_vars

\* Every statement runs, the graph is deployed, and the engine keeps working.
FairSpec == Spec /\ WF_vars(Next)

----------------------------------------------------------------------------
\* Vocabulary of the properties.

Nodes == {"MyInstance", "MyInstance2"}

Started(r) == synthesized /\ r \in DOMAIN status /\ status[r] \in {"creating", "ready"}

Ready(r) == synthesized /\ r \in DOMAIN status /\ status[r] = "ready"

RulesOf(sg) == { r \in ingress : r.sg = sg }

InstanceNamed(id) == CHOOSE i \in instances : i.id = id

\* Statements that follow the read of the boot payload.
AfterRead ==
    {"instance", "instance2", "lb", "listener", "targets", "dep_instance_cluster",
     "dep_listener_instance", "dep_listener_instance2", "done"}

\* Statements that follow the last ingress-rule addition to rds_sg.
AfterRdsRules == AfterRead \cup {"cluster", "amzn_linux", "read_userdata", "failed"}

RECURSIVE Reach(_, _)
\* The resources reachable from S along the edges E.
Reach(S, E) ==
    LET T == S \cup { e[2] : e \in { x \in E : x[1] \in S } }
    IN  IF T = S THEN S ELSE Reach(T, E)

Acyclic(E) == \A e \in E : e[1] \notin Reach({e[2]}, E)

CoreReady ==
    /\ Ready("MyDatabase")
    /\ Ready("MyInstance")
    /\ Ready("MyInstance2")
    /\ Ready("Listener")

----------------------------------------------------------------------------
\* C1: under an engine that starts a resource only when everything it has an
\* ordering edge to is ready, neither MyInstance nor MyInstance2 starts
\* provisioning before MyDatabase is ready.
C1_NodesWaitForDatabase ==
    \A n \in Nodes : Started(n) => Ready("MyDatabase")

\* C2: the listener does not start provisioning until both MyInstance and
\* MyInstance2 are ready.
C2_ListenerWaitsForNodes ==
    Started("Listener") => Ready("MyInstance") /\ Ready("MyInstance2")

C2_ListenerStarted ==
    /\ synthesized
    /\ "Listener" \in DOMAIN status
    /\ status["Listener"] = "creating"
    /\ <<"Listener", "MyInstance2">> \in deps

\* C3: once the declaration is evaluated, the explicit ordering edges contain
\* database->node A, database->node B, node A->listener and node B->listener
\* (an edge is stored as <<dependent, dependency>>), and none of them reversed.
C3_DeclaredEdges ==
    pc = "done" =>
        /\ { <<"MyInstance", "MyDatabase">>, <<"MyInstance2", "MyDatabase">>,
             <<"Listener", "MyInstance">>, <<"Listener", "MyInstance2">> } \subseteq deps
        /\ deps \cap { <<"MyDatabase", "MyInstance">>, <<"MyDatabase", "MyInstance2">>,
                       <<"MyInstance", "Listener">>, <<"MyInstance2", "Listener">> } = {}

\* C4: at every point of the evaluation every inbound rule of rds_sg has the
\* source ec2_sg and a port among 3306 and 22; after the last addition the
\* rules are exactly those two; and the database carries rds_sg alone.
C4_DatabaseInbound ==
    /\ \A r \in RulesOf("rds_sg") : r.peer = "ec2_sg" /\ r.port \in {3306, 22}
    /\ pc \in AfterRdsRules =>
         RulesOf("rds_sg") = { Rule("rds_sg", "ec2_sg", 3306), Rule("rds_sg", "ec2_sg", 22) }
    /\ \A c \in clusters : c.security_groups = {"rds_sg"}

C4_DatabaseDeclared ==
    /\ pc = "done"
    /\ \E c \in clusters : c.id = "MyDatabase"
    /\ Cardinality(RulesOf("rds_sg")) = 2

C6_ListenerTargets ==
    pc = "done" =>
        /\ Cardinality(listeners) = 1
        /\ \A l \in listeners : l.lb = "MyLoadBalancer" /\ l.port = 80
        /\ Cardinality(targetGroups) = 1
        /\ \A g \in targetGroups : g.listener = "Listener" /\ g.targets = Nodes

\* C7: with a zone list of at least two entries the two nodes sit in the
\* zones at indices 0 and 1, which differ, and share machine image, size class
\* t2.small, security group, boot payload and role name.
C7_NodesAlikeButForZone ==
    (\A n \in Nodes : \E i \in instances : i.id = n) =>
        LET a == InstanceNamed("MyInstance")
            b == InstanceNamed("MyInstance2")
        IN  /\ Cardinality(instances) = 2
            /\ Len(azs) >= 2
            /\ a.availability_zone = azs[1]
            /\ b.availability_zone = azs[2]
            /\ a.availability_zone # b.availability_zone
            /\ a.machine_image = b.machine_image
            /\ a.machine_image # Unset
            /\ a.instance_type = "t2.small" /\ b.instance_type = "t2.small"
            /\ a.security_group = b.security_group
            /\ a.user_data = b.user_data /\ a.user_data = file
            /\ a.role_name = b.role_name

C7_BothNodesDeclared ==
    /\ Len(azs) >= 2
    /\ \A n \in Nodes : \E i \in instances : i.id = n

\* C8 as stated: when the boot-payload file is missing the evaluation fails
\* with no resource added to the graph.
C8_NoResourceAtFailure ==
    (file = NoFile /\ pc = "failed") => (~synthesized /\ tree = {})

\* C8 as amended: when the boot-payload file is missing the evaluation stops
\* at the read, no graph is handed to the engine, and the constructs added so
\* far are the VPC, the three security groups and the database cluster: no
\* instance, load balancer, listener or ordering edge.
C8_MissingPayloadFails ==
    file = NoFile =>
        /\ pc \notin AfterRead
        /\ ~synthesized
        /\ instances = {} /\ balancers = {} /\ listeners = {} /\ targetGroups = {}
        /\ deps = {}
        /\ pc = "failed" =>
             Ids = {"MyVPC", "lb_sg", "rds_sg", "ec2_sg", "MyDatabase"}

C8_FailedOnMissingPayload == file = NoFile /\ pc = "failed"

\* C9: the port of the listener's target pool is a port on which ec2_sg
\* admits traffic from lb_sg.
C9_ForwardedPortAdmitted ==
    pc = "done" =>
        \A g \in targetGroups : Rule("ec2_sg", "lb_sg", g.port) \in ingress

\* C10: the ordering edges are acyclic; once the graph is deployed the engine
\* always has a step to take until every resource is ready, and the database,
\* both nodes and the listener all become ready.
C10_EngineCompletes ==
    /\ [](synthesized => Acyclic(dependsOn))
    /\ [](synthesized /\ (\E r \in DOMAIN status : status[r] # "ready") => ENABLED Engine)
    /\ (pc = "done" ~> CoreReady)

C10_AllReady ==
    /\ CoreReady
    /\ \A r \in DOMAIN status : status[r] = "ready"
    /\ Cardinality(DOMAIN status) = 10

====
